---- MODULE Spec2Model ----
(***************************************************************************)
(* A model of src/app.py: the Flask service with the three routes          *)
(* /uploadCert, /signIPA and /health, its three module-level identity      *)
(* globals and the upload folder.                                          *)
(*                                                                         *)
(* Python values.  None is the tuple <<"None">>; a str is <<"str", cs>>    *)
(* where cs is the sequence of its pieces: file names are spelled          *)
(* character by character, a literal of the code or an opaque external     *)
(* text (a url, a stderr text, a uuid) is one piece.  Concatenation,       *)
(* strip, lower, rsplit, endswith and `in` work on these sequences.        *)
(*                                                                         *)
(* Requests.  The development server runs one thread per request, so the   *)
(* handlers interleave.  A handler is cut into one action per access to    *)
(* the shared globals; the code between two accesses touches only the      *)
(* request's locals and files whose names no other request knows, and is   *)
(* part of the action that follows it.                                     *)
(***************************************************************************)
EXTENDS Integers, Sequences, FiniteSets, TLC

\* Number of requests the service receives in one run of Spec.
MaxRequests == 2

\* Number of requests the service receives in one run of SpecRacing.
MaxRacingRequests == 3

\* Number of requests the service receives in one run of SpecSequential.
MaxSequentialRequests == 3

\* Number of requests the service receives in one run of SpecExtract.
MaxExtractRequests == 2

Requests ==
    1..(CHOOSE n \in {MaxRequests, MaxRacingRequests, MaxSequentialRequests, MaxExtractRequests} :
            \A m \in {MaxRequests, MaxRacingRequests, MaxSequentialRequests, MaxExtractRequests} : m <= n)

(***************************************************************************)
(* Python values                                                           *)
(***************************************************************************)
None == <<"None">>

Str(cs) == <<"str", cs>>

Chars(s) == s[2]

\* bool(v) for None and for str
Truthy(v) == v # None /\ v # Str(<<>>)

\* a + b, and an f-string of several parts
Concat(a, b) == Str(Chars(a) \o Chars(b))

\* a if a is not None else b
PyOr_Coalesce(a, b) == IF a # None THEN a ELSE b

\* a or b
PyOr(a, b) == IF Truthy(a) THEN a ELSE b

\* d.get(k, default) for a dict d
DictGet(d, k, default) == IF k \in DOMAIN d THEN d[k] ELSE default

Range(f) == {f[i] : i \in DOMAIN f}

\* s.endswith(suffix)
EndsWith(s, suffix) ==
    LET c == Chars(s)
        x == Chars(suffix)
    IN  /\ Len(x) <= Len(c)
        /\ SubSeq(c, Len(c) - Len(x) + 1, Len(c)) = x

\* sub in s
Contains(s, sub) ==
    LET c == Chars(s)
        x == Chars(sub)
    IN  \E i \in 0..(Len(c) - Len(x)) : SubSeq(c, i + 1, i + Len(x)) = x

Whitespace == {" ", "\n"}

\* s.strip()
Strip(s) ==
    LET c == Chars(s)
        keep == {i \in 1..Len(c) : c[i] \notin Whitespace}
    IN  IF keep = {} THEN Str(<<>>)
        ELSE LET lo == CHOOSE i \in keep : \A j \in keep : i <= j
                 hi == CHOOSE i \in keep : \A j \in keep : j <= i
             IN  Str(SubSeq(c, lo, hi))

LowerChar(ch) ==
    CASE ch = "I" -> "i"
      [] ch = "P" -> "p"
      [] ch = "A" -> "a"
      [] OTHER -> ch

\* s.lower()
Lower(s) == Str([i \in 1..Len(Chars(s)) |-> LowerChar(Chars(s)[i])])

\* s.rsplit('.', 1)[1], for an s that holds a '.'
RSplitDot1(s) ==
    LET c == Chars(s)
        dots == {i \in 1..Len(c) : c[i] = "."}
        last == CHOOSE i \in dots : \A j \in dots : j <= i
    IN  Str(SubSeq(c, last + 1, Len(c)))

\* any(lst) where all(lst) is meant
All_AsAny(lst) == \E i \in 1..Len(lst) : Truthy(lst[i])

\* all(lst)
All(lst) == \A i \in 1..Len(lst) : Truthy(lst[i])

(***************************************************************************)
(* Configuration and helpers of app.py                                     *)
(***************************************************************************)
UPLOAD_FOLDER == Str(<<"/app/uploads">>)

EXT_IPA == Str(<<"i", "p", "a">>)

EXT_P12 == Str(<<"p", "1", "2">>)

EXT_MOBILEPROVISION == Str(<<"m", "o", "b", "i", "l", "e", "p", "r", "o", "v", "i", "s", "i", "o", "n">>)

\* uuid.uuid4(): a value no other call returns.  Call k of request r.
uuid4(r, k) == Str(<<ToString(<<r, k>>)>>)

\* os.path.join(app.config['UPLOAD_FOLDER'], f"{prefix}{uuid}{suffix}")
UploadPath(prefix, uuid, suffix) ==
    Concat(UPLOAD_FOLDER, Concat(Str(<<"/", prefix>>), Concat(uuid, Str(<<suffix>>))))

\* The extension looked for anywhere in the name, not after the last '.'
allowed_file_Substring(filename, allowed_extensions) ==
    /\ "." \in Range(Chars(filename))
    /\ \E e \in allowed_extensions : Contains(Lower(filename), e)

allowed_file(filename, allowed_extensions) ==
    /\ "." \in Range(Chars(filename))
    /\ Lower(RSplitDot1(filename)) \in allowed_extensions

\* A dict with the given keys
EmptyDict == [k \in {} |-> None]

\* 'Info.plist' and the two marks extract_app_info looks for
INFO_PLIST == Str(<<"Info.plist">>)

APP_SUFFIX == Str(<<".app", "/">>)

PAYLOAD_MARK == Str(<<"/", "Payload", "/">>)

\* The first name of the list that ends with '.app/' and holds '/Payload/'
\* (the for loop with its break), or None.
FindAppDir(namelist) ==
    LET hits == {i \in 1..Len(namelist) :
                    EndsWith(namelist[i], APP_SUFFIX) /\ Contains(namelist[i], PAYLOAD_MARK)}
    IN  IF hits = {} THEN None
        ELSE namelist[CHOOSE i \in hits : \A j \in hits : i <= j]

\* extract_app_info(ipa_path), on the content saved at ipa_path:
\*   zip.is_zip    whether zipfile.ZipFile opens it (else it raises)
\*   zip.namelist  the names of its entries
\*   zip.plist     what plistlib.load gives for the Info.plist entry:
\*                 ok = FALSE when it raises or yields no dict (.get then
\*                 raises), else data is the dict
\* The result is the pair <<app_name, bundle_id>>, or None where the
\* function ends without a return statement.
extract_app_info(zip) ==
    IF ~zip.is_zip THEN <<None, None>>
    ELSE LET app_dir == FindAppDir(zip.namelist)
         IN  IF ~Truthy(app_dir) THEN <<None, None>>
             ELSE LET info_plist_path == Concat(app_dir, INFO_PLIST)
                  IN  IF info_plist_path \in Range(zip.namelist)
                      THEN IF ~zip.plist.ok THEN <<None, None>>
                           ELSE LET plist_data == zip.plist.data
                                    app_name == PyOr(DictGet(plist_data, "CFBundleDisplayName", None),
                                                     DictGet(plist_data, "CFBundleName", Str(<<"Unknown App">>)))
                                    bundle_id == DictGet(plist_data, "CFBundleIdentifier", Str(<<"Unknown Bundle ID">>))
                                IN  <<app_name, bundle_id>>
                      ELSE None

\* The cmd list of sign_ipa_with_zsign, from the three values read from the
\* globals and the two paths.
ZsignCmd(k, p, m, output_path, ipa_path) ==
    <<Str(<<"zsign">>), Str(<<"-k">>), k, Str(<<"-p">>), p, Str(<<"-m">>), m,
      Str(<<"-o">>), output_path, ipa_path>>

\* The signer's stderr left out of the message
ZsignResult_NoStderr(run) ==
    IF run.raises THEN <<FALSE, Concat(Str(<<"Signing error: ">>), run.exc)>>
    ELSE IF run.returncode = 0 THEN <<TRUE, Str(<<"IPA signed successfully">>)>>
    ELSE <<FALSE, Str(<<"zsign error">>)>>

\* Any run that did not raise taken as a success
ZsignResult_IgnoresExit(run) ==
    IF run.raises THEN <<FALSE, Concat(Str(<<"Signing error: ">>), run.exc)>>
    ELSE <<TRUE, Str(<<"IPA signed successfully">>)>>

\* What sign_ipa_with_zsign returns for the outcome of subprocess.run:
\* run.raises (the call raised, with text run.exc), or run.returncode and
\* run.stderr.
ZsignResult(run) ==
    IF run.raises THEN <<FALSE, Concat(Str(<<"Signing error: ">>), run.exc)>>
    ELSE IF run.returncode = 0 THEN <<TRUE, Str(<<"IPA signed successfully">>)>>
    ELSE <<FALSE, Concat(Str(<<"zsign error: ">>), run.stderr)>>

\* The body returned as it came, without strip()
upload_to_transfer_sh_NoStrip(file_path, fs, post) ==
    IF file_path \notin fs THEN None
    ELSE IF post.raises THEN None
    ELSE IF post.status_code = 200 THEN post.text
    ELSE None

\* upload_to_transfer_sh(file_path), with the files that exist (open raises
\* when file_path does not) and the outcome of requests.post: post.raises,
\* or post.status_code and post.text.
upload_to_transfer_sh(file_path, fs, post) ==
    IF file_path \notin fs THEN None
    ELSE IF post.raises THEN None
    ELSE IF post.status_code = 200 THEN Strip(post.text)
    ELSE None

\* plistlib.dumps(v): the bytes, kept as the value they encode
Dumps(v) == <<"plist", v>>

\* The title and the bundle identifier exchanged
create_manifest_plist_Swapped(app_name, bundle_id, ipa_url) ==
    Dumps([items |-> <<
        [assets |-> << [kind |-> Str(<<"software-package">>), url |-> ipa_url] >>,
         metadata |-> ("bundle-identifier" :> app_name)
                   @@ ("bundle-version" :> Str(<<"1.0">>))
                   @@ ("kind" :> Str(<<"software">>))
                   @@ ("title" :> bundle_id)]
    >>])

create_manifest_plist(app_name, bundle_id, ipa_url) ==
    Dumps([items |-> <<
        [assets |-> << [kind |-> Str(<<"software-package">>), url |-> ipa_url] >>,
         metadata |-> ("bundle-identifier" :> bundle_id)
                   @@ ("bundle-version" :> Str(<<"1.0">>))
                   @@ ("kind" :> Str(<<"software">>))
                   @@ ("title" :> app_name)]
    >>])

\* The link without its scheme and query
ItmsUrl_Bare(manifest_url) == manifest_url

\* itms_url of sign_ipa
ItmsUrl(manifest_url) ==
    Concat(Str(<<"itms-services://?action=download-manifest&url=">>), manifest_url)

\* The whole upload folder emptied
RemoveAll_Everything(fs, paths) == {}

\* The three os.remove calls inside try/except of sign_ipa: each removes its
\* file; the first that raises (no such file) ends the block.
RECURSIVE RemoveAll(_, _)
RemoveAll(fs, paths) ==
    IF paths = <<>> THEN fs
    ELSE IF Head(paths) \notin fs THEN fs
    ELSE RemoveAll(fs \ {Head(paths)}, Tail(paths))

\* jsonify({...}) with the status code of the return statement; a body
\* without 'itms_url' has it None here.
Response(code, status, message, itms_url) ==
    [code |-> code, status |-> Str(<<status>>), message |-> message, itms_url |-> itms_url]

\* str(e) of an exception raised by a file operation
OSERROR == Str(<<"[Errno 28] No space left on device">>)

\* str(e) of the TypeError raised by unpacking None
UNPACK_ERROR == Str(<<"cannot unpack non-iterable NoneType object">>)

(***************************************************************************)
(* The inputs: what a client sends, and what the outside world answers     *)
(***************************************************************************)
\* File contents, as zipfile.ZipFile and plistlib.load see them.
Bytes(is_zip, namelist, plist_ok, plist_data) ==
    [is_zip |-> is_zip, namelist |-> namelist,
     plist |-> [ok |-> plist_ok, data |-> plist_data]]

\* Entry names of archives.  N_APP_DIR has the '/Payload/' the code looks
\* for; N_TOP_DIR is 'Payload/Foo.app/', with no '/' before Payload.
N_APP_DIR == Str(<<"x", "/", "Payload", "/", "Foo", ".app", "/">>)

N_APP_PLIST == Concat(N_APP_DIR, INFO_PLIST)

N_APP_BINARY == Concat(N_APP_DIR, Str(<<"Foo">>))

N_TOP_DIR == Str(<<"Payload", "/", "Foo", ".app", "/">>)

N_TOP_PLIST == Concat(N_TOP_DIR, INFO_PLIST)

S_FOO == Str(<<"Foo">>)

S_BAR == Str(<<"Bar">>)

S_BUNDLE == Str(<<"com.example.foo">>)

D_FULL == ("CFBundleDisplayName" :> S_FOO) @@ ("CFBundleName" :> S_BAR) @@ ("CFBundleIdentifier" :> S_BUNDLE)

D_NAME_ONLY == ("CFBundleName" :> S_BAR) @@ ("CFBundleIdentifier" :> S_BUNDLE)

D_EMPTY_NAMES == ("CFBundleDisplayName" :> Str(<<>>)) @@ ("CFBundleName" :> Str(<<>>)) @@ ("CFBundleIdentifier" :> S_BUNDLE)

\* not a zip archive (also: the content of a certificate or profile file)
B_NOT_ZIP == Bytes(FALSE, <<>>, FALSE, EmptyDict)

\* a zip archive with the bundle at the top level: no '/Payload/' in a name
B_NO_APP_DIR == Bytes(TRUE, <<N_TOP_DIR, N_TOP_PLIST>>, TRUE, D_FULL)

\* an application-bundle directory entry and no Info.plist under it
B_NO_PLIST == Bytes(TRUE, <<N_APP_DIR, N_APP_BINARY>>, FALSE, EmptyDict)

\* an Info.plist that plistlib cannot load
B_BAD_PLIST == Bytes(TRUE, <<N_APP_DIR, N_APP_PLIST>>, FALSE, EmptyDict)

B_FULL == Bytes(TRUE, <<N_APP_BINARY, N_APP_DIR, N_APP_PLIST>>, TRUE, D_FULL)

B_NAME_ONLY == Bytes(TRUE, <<N_APP_DIR, N_APP_PLIST>>, TRUE, D_NAME_ONLY)

B_NO_KEYS == Bytes(TRUE, <<N_APP_DIR, N_APP_PLIST>>, TRUE, EmptyDict)

B_EMPTY_NAMES == Bytes(TRUE, <<N_APP_DIR, N_APP_PLIST>>, TRUE, D_EMPTY_NAMES)

Archives ==
    {B_NOT_ZIP, B_NO_APP_DIR, B_NO_PLIST, B_BAD_PLIST, B_FULL, B_NAME_ONLY, B_NO_KEYS, B_EMPTY_NAMES}

\* File names, character by character
F_IPA == Str(<<"a", ".", "i", "p", "a">>)

F_IPA_UPPER == Str(<<"a", ".", "I", "P", "A">>)

F_ZIP == Str(<<"a", ".", "z", "i", "p">>)

F_IPA_ZIP == Str(<<"a", ".", "i", "p", "a", ".", "z", "i", "p">>)

F_NO_DOT == Str(<<"i", "p", "a">>)

F_P12 == Str(<<"c", ".", "p", "1", "2">>)

F_MOBILEPROVISION == Concat(Str(<<"p", ".">>), EXT_MOBILEPROVISION)

\* A file of request.files
File(filename, content) == [filename |-> filename, content |-> content]

\* request.files and request.form of a request
Request(fs, form) == [files |-> fs, form |-> form]

NoFields == [k \in {} |-> None]

NoRequest == Request(NoFields, NoFields)

SignRequests ==
    {Request(NoFields, NoFields)}
    \cup {Request("file" :> File(n, B_FULL), NoFields) : n \in {F_ZIP, F_IPA_ZIP, F_NO_DOT, F_IPA_UPPER}}
    \cup {Request("file" :> File(F_IPA, b), NoFields) : b \in Archives}

PW1 == Str(<<"secret1">>)

PW2 == Str(<<"secret2">>)

UploadFiles(p12_name, mobileprovision_name) ==
    ("p12" :> File(p12_name, B_NOT_ZIP)) @@ ("mobileprovision" :> File(mobileprovision_name, B_NOT_ZIP))

UploadRequests ==
    {Request(UploadFiles(F_P12, F_MOBILEPROVISION), "password" :> pw) : pw \in {PW1, PW2, Str(<<>>)}}
    \cup {Request(UploadFiles(F_P12, F_MOBILEPROVISION), NoFields),
          Request("p12" :> File(F_P12, B_NOT_ZIP), "password" :> PW1),
          Request("mobileprovision" :> File(F_MOBILEPROVISION, B_NOT_ZIP), "password" :> PW1),
          Request(UploadFiles(F_MOBILEPROVISION, F_MOBILEPROVISION), "password" :> PW1),
          Request(UploadFiles(F_P12, F_P12), "password" :> PW1),
          Request(UploadFiles(F_IPA, F_IPA), "password" :> Str(<<>>))}

\* Outcomes of subprocess.run(cmd, ...): writes_output is whether the signer
\* left a file at the output path.
Run(raises, returncode, stderr, writes_output) ==
    [raises |-> raises, exc |-> Str(<<"[Errno 2] No such file or directory: 'zsign'">>),
     returncode |-> returncode, stderr |-> stderr, writes_output |-> writes_output]

BAD_KEY == Str(<<"bad key">>)

RunOutcomes ==
    {Run(FALSE, 0, Str(<<>>), TRUE),
     Run(FALSE, 0, Str(<<>>), FALSE),
     Run(FALSE, 1, BAD_KEY, FALSE),
     Run(FALSE, 1, Str(<<>>), TRUE),
     Run(TRUE, 0, Str(<<>>), FALSE)}

\* Outcomes of requests.post(...)
Post(raises, status_code, text) == [raises |-> raises, status_code |-> status_code, text |-> text]

URL1 == Str(<<"https://transfer.sh/abc/1">>)

URL2 == Str(<<"https://transfer.sh/abc/2">>)

PostOutcomes ==
    {Post(FALSE, 200, Concat(URL1, Str(<<"\n">>))),
     Post(FALSE, 200, Concat(Str(<<" ">>), URL2)),
     Post(FALSE, 200, Str(<<" ", "\n">>)),
     Post(FALSE, 200, Str(<<>>)),
     Post(FALSE, 404, Str(<<"Not Found">>)),
     Post(TRUE, 0, Str(<<>>))}

(***************************************************************************)
(* The state                                                               *)
(***************************************************************************)
VARIABLES
    stored_p12_path,              \* the three globals of app.py
    stored_password,
    stored_mobileprovision_path,
    files,                        \* the paths that exist in UPLOAD_FOLDER
    req                           \* the requests: their locals and their place in the handler

vars == <<stored_p12_path, stored_password, stored_mobileprovision_path, files, req>>

NoResponse == [code |-> 0, status |-> None, message |-> None, itms_url |-> None]

\* The locals result (of subprocess.run) and response (of requests.post)
\* before the call
NoResult == Run(FALSE, -1, None, FALSE)

NoPost == Post(FALSE, -1, None)

\* A request not yet received.  lst is the list all([...]) is called on, as
\* far as it is built; calls are the calls made out of the handler so far;
\* info is what extract_app_info returned; ipa_response and
\* manifest_response are the response of requests.post in the two calls of
\* upload_to_transfer_sh (NoPost when open raised before the post).
IdleRequest ==
    [kind |-> "idle", pc |-> "idle", request |-> NoRequest,
     lst |-> <<>>, cmd |-> <<>>, calls |-> <<>>,
     p12_path |-> None, password |-> None, mobileprovision_path |-> None,
     ipa_path |-> None, app_name |-> None, bundle_id |-> None,
     info |-> None, result |-> NoResult, ipa_response |-> NoPost, manifest_response |-> NoPost,
     signed_ipa_path |-> None, ipa_url |-> None,
     manifest_content |-> None, manifest_path |-> None, manifest_url |-> None,
     resp |-> NoResponse]

Init ==
    /\ stored_p12_path = None
    /\ stored_password = None
    /\ stored_mobileprovision_path = None
    /\ files = {}
    /\ req = [r \in Requests |-> IdleRequest]

\* Request r arrives: the requests are numbered in the order they arrive.
Arrives(r) ==
    /\ req[r].kind = "idle"
    /\ \A q \in Requests : q < r => req[q].kind # "idle"

\* The handler returns resp.
Return(rec, resp) == [rec EXCEPT !.pc = "done", !.resp = resp]

(***************************************************************************)
(* /uploadCert: upload_certificates                                        *)
(***************************************************************************)
\* request.form.get('password', '')
FormPassword(request) == DictGet(request.form, "password", Str(<<>>))

\* The checks without the one of the profile's file name
UploadValidation_ProfileUnchecked(request) ==
    IF "p12" \notin DOMAIN request.files \/ "mobileprovision" \notin DOMAIN request.files
    THEN Response(400, "error", Str(<<"Missing p12 or mobileprovision file">>), None)
    ELSE IF ~Truthy(FormPassword(request))
    THEN Response(400, "error", Str(<<"Password is required">>), None)
    ELSE IF ~allowed_file(request.files["p12"].filename, {EXT_P12})
    THEN Response(400, "error", Str(<<"Invalid p12 file">>), None)
    ELSE NoResponse

\* The four checks of upload_certificates: the response of the first that
\* rejects the request, or NoResponse.
UploadValidation(request) ==
    IF "p12" \notin DOMAIN request.files \/ "mobileprovision" \notin DOMAIN request.files
    THEN Response(400, "error", Str(<<"Missing p12 or mobileprovision file">>), None)
    ELSE IF ~Truthy(FormPassword(request))
    THEN Response(400, "error", Str(<<"Password is required">>), None)
    ELSE IF ~allowed_file(request.files["p12"].filename, {EXT_P12})
    THEN Response(400, "error", Str(<<"Invalid p12 file">>), None)
    ELSE IF ~allowed_file(request.files["mobileprovision"].filename, {EXT_MOBILEPROVISION})
    THEN Response(400, "error", Str(<<"Invalid mobileprovision file">>), None)
    ELSE NoResponse

UploadError(e) == Response(500, "error", Concat(Str(<<"Upload error: ">>), e), None)

SaveOutcomes == {"saved", "p12_raises", "mobileprovision_raises"}

\* Each global assigned right after its file is saved
UploadBegin_StoresAsSaved(r, request, save) ==
    /\ Arrives(r)
    /\ LET rejected == UploadValidation(request)
           p12_path == UploadPath("cert_", uuid4(r, 1), ".p12")
           mobileprovision_path == UploadPath("profile_", uuid4(r, 2), ".mobileprovision")
           rec == [req[r] EXCEPT !.kind = "upload", !.request = request]
       IN  IF rejected # NoResponse
           THEN /\ req' = [req EXCEPT ![r] = Return(rec, rejected)]
                /\ files' = files
                /\ stored_p12_path' = stored_p12_path
           ELSE IF save = "p12_raises"
           THEN /\ req' = [req EXCEPT ![r] = Return(rec, UploadError(OSERROR))]
                /\ files' = files
                /\ stored_p12_path' = stored_p12_path
           ELSE IF save = "mobileprovision_raises"
           THEN /\ req' = [req EXCEPT ![r] = Return(rec, UploadError(OSERROR))]
                /\ files' = files \cup {p12_path}
                /\ stored_p12_path' = p12_path
           ELSE /\ req' = [req EXCEPT ![r] = [rec EXCEPT !.pc = "store_p12",
                                                         !.p12_path = p12_path,
                                                         !.password = FormPassword(request),
                                                         !.mobileprovision_path = mobileprovision_path]]
                /\ files' = files \cup {p12_path, mobileprovision_path}
                /\ stored_p12_path' = stored_p12_path
    /\ UNCHANGED <<stored_password, stored_mobileprovision_path>>

\* The checks, the two paths and the two save calls.  secure_filename leaves
\* a name made of 'cert_' or 'profile_', a uuid and the suffix as it is.
\* save says which save call, if any, raises.
UploadBegin(r, request, save) ==
    /\ Arrives(r)
    /\ LET rejected == UploadValidation(request)
           p12_path == UploadPath("cert_", uuid4(r, 1), ".p12")
           mobileprovision_path == UploadPath("profile_", uuid4(r, 2), ".mobileprovision")
           rec == [req[r] EXCEPT !.kind = "upload", !.request = request]
       IN  IF rejected # NoResponse
           THEN /\ req' = [req EXCEPT ![r] = Return(rec, rejected)]
                /\ files' = files
           ELSE IF save = "p12_raises"
           THEN /\ req' = [req EXCEPT ![r] = Return(rec, UploadError(OSERROR))]
                /\ files' = files
           ELSE IF save = "mobileprovision_raises"
           THEN /\ req' = [req EXCEPT ![r] = Return(rec, UploadError(OSERROR))]
                /\ files' = files \cup {p12_path}
           ELSE /\ req' = [req EXCEPT ![r] = [rec EXCEPT !.pc = "store_p12",
                                                         !.p12_path = p12_path,
                                                         !.password = FormPassword(request),
                                                         !.mobileprovision_path = mobileprovision_path]]
                /\ files' = files \cup {p12_path, mobileprovision_path}
    /\ UNCHANGED <<stored_p12_path, stored_password, stored_mobileprovision_path>>

\* A path already stored is kept
UploadStoreP12_KeepFirst(r) ==
    /\ req[r].kind = "upload" /\ req[r].pc = "store_p12"
    /\ stored_p12_path' = IF stored_p12_path = None THEN req[r].p12_path ELSE stored_p12_path
    /\ req' = [req EXCEPT ![r].pc = "store_password"]
    /\ UNCHANGED <<stored_password, stored_mobileprovision_path, files>>

\* stored_p12_path = p12_path
UploadStoreP12(r) ==
    /\ req[r].kind = "upload" /\ req[r].pc = "store_p12"
    /\ stored_p12_path' = req[r].p12_path
    /\ req' = [req EXCEPT ![r].pc = "store_password"]
    /\ UNCHANGED <<stored_password, stored_mobileprovision_path, files>>

\* stored_password = password
UploadStorePassword(r) ==
    /\ req[r].kind = "upload" /\ req[r].pc = "store_password"
    /\ stored_password' = req[r].password
    /\ req' = [req EXCEPT ![r].pc = "store_mobileprovision"]
    /\ UNCHANGED <<stored_p12_path, stored_mobileprovision_path, files>>

\* stored_mobileprovision_path = mobileprovision_path, and the success response
UploadStoreMobileprovision(r) ==
    /\ req[r].kind = "upload" /\ req[r].pc = "store_mobileprovision"
    /\ stored_mobileprovision_path' = req[r].mobileprovision_path
    /\ req' = [req EXCEPT ![r] = Return(req[r],
                  Response(200, "success", Str(<<"Certificates uploaded successfully">>), None))]
    /\ UNCHANGED <<stored_p12_path, stored_password, files>>

(***************************************************************************)
(* /health: health_check                                                   *)
(***************************************************************************)
HealthCheck(r) ==
    /\ Arrives(r)
    /\ req' = [req EXCEPT ![r] = Return([req[r] EXCEPT !.kind = "health"],
                  Response(200, "ok", Str(<<"Backend is running">>), None))]
    /\ UNCHANGED <<stored_p12_path, stored_password, stored_mobileprovision_path, files>>

(***************************************************************************)
(* /signIPA: sign_ipa, with sign_ipa_with_zsign inlined                    *)
(***************************************************************************)
\* The two checks of the submitted file: the response of the first that
\* rejects the request, or NoResponse.
\* The extension check left out
SignValidation_ExtensionUnchecked(request) ==
    IF "file" \notin DOMAIN request.files
    THEN Response(400, "error", Str(<<"No IPA file provided">>), None)
    ELSE NoResponse

SignValidation(request) ==
    IF "file" \notin DOMAIN request.files
    THEN Response(400, "error", Str(<<"No IPA file provided">>), None)
    ELSE IF ~allowed_file(request.files["file"].filename, {EXT_IPA})
    THEN Response(400, "error", Str(<<"Invalid IPA file">>), None)
    ELSE NoResponse

NOT_UPLOADED == Str(<<"Certificates not uploaded. Please upload certificates first.">>)

\* The response of the except clause of sign_ipa
\* The except clause returning its body without the 500
SigningError_NoStatus(e) == Response(200, "error", Concat(Str(<<"Signing error: ">>), e), None)

SigningError(e) == Response(500, "error", Concat(Str(<<"Signing error: ">>), e), None)

\* The file checks, then the first of the three reads of all([...]) on line 171
SignBegin(r, request) ==
    /\ Arrives(r)
    /\ LET rejected == SignValidation(request)
           rec == [req[r] EXCEPT !.kind = "sign", !.request = request]
       IN  req' = [req EXCEPT ![r] =
                IF rejected # NoResponse THEN Return(rec, rejected)
                ELSE [rec EXCEPT !.pc = "check_password", !.lst = <<stored_p12_path>>]]
    /\ UNCHANGED <<stored_p12_path, stored_password, stored_mobileprovision_path, files>>

\* The second read of line 171
SignCheckPassword(r) ==
    /\ req[r].kind = "sign" /\ req[r].pc = "check_password"
    /\ req' = [req EXCEPT ![r].pc = "check_mobileprovision",
                          ![r].lst = Append(@, stored_password)]
    /\ UNCHANGED <<stored_p12_path, stored_password, stored_mobileprovision_path, files>>

\* The third read of line 171, and the test
SignCheckMobileprovision(r) ==
    /\ req[r].kind = "sign" /\ req[r].pc = "check_mobileprovision"
    /\ LET lst == Append(req[r].lst, stored_mobileprovision_path)
       IN  req' = [req EXCEPT ![r] =
                IF ~All(lst)
                THEN Return([req[r] EXCEPT !.lst = lst], Response(412, "error", NOT_UPLOADED, None))
                ELSE [req[r] EXCEPT !.pc = "save", !.lst = lst]]
    /\ UNCHANGED <<stored_p12_path, stored_password, stored_mobileprovision_path, files>>

\* Lines 175 to 185: the input is saved (saved = FALSE: save raises), its
\* metadata are extracted and tested, and the output path is made.
SignSave(r, saved) ==
    /\ req[r].kind = "sign" /\ req[r].pc = "save"
    /\ LET ipa_path == UploadPath("input_", uuid4(r, 1), ".ipa")
           info == extract_app_info(req[r].request.files["file"].content)
           rec == [req[r] EXCEPT !.ipa_path = ipa_path]
           called == [rec EXCEPT !.calls = Append(@, "extract_app_info"), !.info = info]
       IN  IF ~saved
           THEN /\ req' = [req EXCEPT ![r] = Return(rec, SigningError(OSERROR))]
                /\ files' = files
           ELSE /\ files' = files \cup {ipa_path}
                /\ req' = [req EXCEPT ![r] =
                     IF info = None
                     THEN Return(called, SigningError(UNPACK_ERROR))
                     ELSE LET got == [called EXCEPT !.app_name = info[1], !.bundle_id = info[2]]
                          IN  IF ~Truthy(info[1]) \/ ~Truthy(info[2])
                              THEN Return(got, Response(400, "error",
                                       Str(<<"Could not extract app info from IPA">>), None))
                              ELSE [got EXCEPT !.pc = "zsign_check_p12",
                                               !.signed_ipa_path = UploadPath("signed_", uuid4(r, 2), ".ipa")]]
    /\ UNCHANGED <<stored_p12_path, stored_password, stored_mobileprovision_path>>

\* sign_ipa_with_zsign, line 61: the three reads and the test
ZsignCheckP12(r) ==
    /\ req[r].kind = "sign" /\ req[r].pc = "zsign_check_p12"
    /\ req' = [req EXCEPT ![r].pc = "zsign_check_password", ![r].lst = <<stored_p12_path>>]
    /\ UNCHANGED <<stored_p12_path, stored_password, stored_mobileprovision_path, files>>

ZsignCheckPassword(r) ==
    /\ req[r].kind = "sign" /\ req[r].pc = "zsign_check_password"
    /\ req' = [req EXCEPT ![r].pc = "zsign_check_mobileprovision",
                          ![r].lst = Append(@, stored_password)]
    /\ UNCHANGED <<stored_p12_path, stored_password, stored_mobileprovision_path, files>>

ZsignCheckMobileprovision(r) ==
    /\ req[r].kind = "sign" /\ req[r].pc = "zsign_check_mobileprovision"
    /\ LET lst == Append(req[r].lst, stored_mobileprovision_path)
       IN  req' = [req EXCEPT ![r] =
                IF ~All(lst)
                THEN Return([req[r] EXCEPT !.lst = lst],
                            Response(500, "error", Str(<<"Certificates not uploaded">>), None))
                ELSE [req[r] EXCEPT !.pc = "cmd_k", !.lst = lst]]
    /\ UNCHANGED <<stored_p12_path, stored_password, stored_mobileprovision_path, files>>

\* Lines 65 to 72: the cmd list is built, its three globals read in turn
ZsignCmdK(r) ==
    /\ req[r].kind = "sign" /\ req[r].pc = "cmd_k"
    /\ req' = [req EXCEPT ![r].pc = "cmd_p", ![r].cmd = <<stored_p12_path>>]
    /\ UNCHANGED <<stored_p12_path, stored_password, stored_mobileprovision_path, files>>

ZsignCmdP(r) ==
    /\ req[r].kind = "sign" /\ req[r].pc = "cmd_p"
    /\ req' = [req EXCEPT ![r].pc = "cmd_m", ![r].cmd = Append(@, stored_password)]
    /\ UNCHANGED <<stored_p12_path, stored_password, stored_mobileprovision_path, files>>

ZsignCmdM(r) ==
    /\ req[r].kind = "sign" /\ req[r].pc = "cmd_m"
    /\ LET c == Append(req[r].cmd, stored_mobileprovision_path)
       IN  req' = [req EXCEPT ![r].pc = "run",
                              ![r].cmd = ZsignCmd(c[1], c[2], c[3], req[r].signed_ipa_path, req[r].ipa_path)]
    /\ UNCHANGED <<stored_p12_path, stored_password, stored_mobileprovision_path, files>>

\* subprocess.run(cmd, ...) with outcome run, and lines 76 to 82 and 188 to 189
ZsignRun_Retry(r, run) ==
    /\ req[r].kind = "sign" /\ req[r].pc = "run"
    /\ LET result == ZsignResult(run)
           rec == [req[r] EXCEPT !.calls = Append(@, "zsign"), !.result = run]
       IN  /\ files' = IF run.writes_output THEN files \cup {req[r].signed_ipa_path} ELSE files
           /\ req' = [req EXCEPT ![r] =
                IF ~result[1] THEN rec
                ELSE [rec EXCEPT !.pc = "publish_ipa"]]
    /\ UNCHANGED <<stored_p12_path, stored_password, stored_mobileprovision_path>>

ZsignRun(r, run) ==
    /\ req[r].kind = "sign" /\ req[r].pc = "run"
    /\ LET result == ZsignResult(run)
           rec == [req[r] EXCEPT !.calls = Append(@, "zsign"), !.result = run]
       IN  /\ files' = IF run.writes_output THEN files \cup {req[r].signed_ipa_path} ELSE files
           /\ req' = [req EXCEPT ![r] =
                IF ~result[1] THEN Return(rec, Response(500, "error", result[2], None))
                ELSE [rec EXCEPT !.pc = "publish_ipa"]]
    /\ UNCHANGED <<stored_p12_path, stored_password, stored_mobileprovision_path>>

\* Lines 192 to 194: the signed archive is published, post is what
\* requests.post answers
PublishIpa(r, post) ==
    /\ req[r].kind = "sign" /\ req[r].pc = "publish_ipa"
    /\ LET ipa_url == upload_to_transfer_sh(req[r].signed_ipa_path, files, post)
           rec == [req[r] EXCEPT !.calls = Append(@, "upload_ipa"), !.ipa_url = ipa_url,
                                 !.ipa_response = IF req[r].signed_ipa_path \in files THEN post ELSE NoPost]
       IN  req' = [req EXCEPT ![r] =
                IF ~Truthy(ipa_url)
                THEN Return(rec, Response(500, "error", Str(<<"Failed to upload signed IPA">>), None))
                ELSE [rec EXCEPT !.pc = "publish_manifest"]]
    /\ UNCHANGED <<stored_p12_path, stored_password, stored_mobileprovision_path, files>>

\* Lines 197 to 223: the manifest is built, written (written = FALSE: open
\* raises) and published, the three files are removed and the install link
\* is returned.
PublishManifest(r, written, post) ==
    /\ req[r].kind = "sign" /\ req[r].pc = "publish_manifest"
    /\ LET manifest_content == create_manifest_plist(req[r].app_name, req[r].bundle_id, req[r].ipa_url)
           manifest_path == UploadPath("manifest_", uuid4(r, 3), ".plist")
           made == [req[r] EXCEPT !.manifest_content = manifest_content,
                                  !.manifest_path = manifest_path]
           fs == files \cup {manifest_path}
           manifest_url == upload_to_transfer_sh(manifest_path, fs, post)
           rec == [made EXCEPT !.calls = Append(@, "upload_manifest"), !.manifest_url = manifest_url,
                               !.manifest_response = post]
       IN  IF ~written
           THEN /\ files' = files
                /\ req' = [req EXCEPT ![r] = Return(made, SigningError(OSERROR))]
           ELSE IF ~Truthy(manifest_url)
           THEN /\ files' = fs
                /\ req' = [req EXCEPT ![r] =
                     Return(rec, Response(500, "error", Str(<<"Failed to upload manifest">>), None))]
           ELSE /\ files' = RemoveAll(fs, <<req[r].ipa_path, req[r].signed_ipa_path, manifest_path>>)
                /\ req' = [req EXCEPT ![r] =
                     Return(rec, Response(200, "success",
                         Concat(Str(<<"IPA signed successfully: ">>),
                             Concat(req[r].app_name, Concat(Str(<<" (">>),
                                 Concat(req[r].bundle_id, Str(<<")">>))))),
                         ItmsUrl(manifest_url)))]
    /\ UNCHANGED <<stored_p12_path, stored_password, stored_mobileprovision_path>>

\* A step of request r
StepOf(r) ==
        \/ \E request \in UploadRequests, save \in SaveOutcomes : UploadBegin(r, request, save)
        \/ UploadStoreP12(r)
        \/ UploadStorePassword(r)
        \/ UploadStoreMobileprovision(r)
        \/ HealthCheck(r)
        \/ \E request \in SignRequests : SignBegin(r, request)
        \/ SignCheckPassword(r)
        \/ SignCheckMobileprovision(r)
        \/ \E saved \in BOOLEAN : SignSave(r, saved)
        \/ ZsignCheckP12(r)
        \/ ZsignCheckPassword(r)
        \/ ZsignCheckMobileprovision(r)
        \/ ZsignCmdK(r)
        \/ ZsignCmdP(r)
        \/ ZsignCmdM(r)
        \/ \E run \in RunOutcomes : ZsignRun(r, run)
        \/ \E post \in PostOutcomes : PublishIpa(r, post)
        \/ \E written \in BOOLEAN, post \in PostOutcomes : PublishManifest(r, written, post)

\* The steps of the first n requests
Step(n) == \E r \in 1..n : StepOf(r)

Next == Step(MaxRequests)

Spec == Init /\ [][Next]_vars

\* A step of a request that has arrived: its thread is scheduled, and the
\* signer or the publish endpoint it waits for answers.
Progress(r) == req[r].kind # "idle" /\ StepOf(r)

\* Spec with every request's thread eventually scheduled
SpecLive == Spec /\ \A r \in 1..MaxRequests : WF_vars(Progress(r))

NextRacing == Step(MaxRacingRequests)

\* The same service with one more request in flight: room for a request
\* that reads the identity while a second upload replaces the first.
SpecRacing == Init /\ [][NextRacing]_vars

\* The inputs of the sequential runs: uploads that succeed with either
\* password and uploads that are rejected, sign requests that are rejected
\* early and one that reaches the signer, a publish that succeeds and one
\* that fails.
SequentialUploadRequests ==
    {Request(UploadFiles(F_P12, F_MOBILEPROVISION), "password" :> pw) : pw \in {PW1, PW2, Str(<<>>)}}
    \cup {Request("p12" :> File(F_P12, B_NOT_ZIP), "password" :> PW1),
          Request(UploadFiles(F_P12, F_P12), "password" :> PW2)}

SequentialSignRequests ==
    {Request(NoFields, NoFields),
     Request("file" :> File(F_IPA, B_NOT_ZIP), NoFields),
     Request("file" :> File(F_IPA, B_FULL), NoFields)}

SequentialPostOutcomes ==
    {Post(FALSE, 200, Concat(URL1, Str(<<"\n">>))),
     Post(FALSE, 404, Str(<<"Not Found">>))}

\* No request but r is in its handler
Alone(r) == \A q \in Requests \ {r} : req[q].pc \in {"idle", "done"}

\* A step of request r, taken while no other request is in its handler
SequentialStep(r, uploads, signs) ==
    \/ Alone(r) /\ \E request \in uploads, save \in SaveOutcomes : UploadBegin(r, request, save)
    \/ Alone(r) /\ UploadStoreP12(r)
    \/ Alone(r) /\ UploadStorePassword(r)
    \/ Alone(r) /\ UploadStoreMobileprovision(r)
    \/ Alone(r) /\ HealthCheck(r)
    \/ Alone(r) /\ \E request \in signs : SignBegin(r, request)
    \/ Alone(r) /\ SignCheckPassword(r)
    \/ Alone(r) /\ SignCheckMobileprovision(r)
    \/ Alone(r) /\ \E saved \in BOOLEAN : SignSave(r, saved)
    \/ Alone(r) /\ ZsignCheckP12(r)
    \/ Alone(r) /\ ZsignCheckPassword(r)
    \/ Alone(r) /\ ZsignCheckMobileprovision(r)
    \/ Alone(r) /\ ZsignCmdK(r)
    \/ Alone(r) /\ ZsignCmdP(r)
    \/ Alone(r) /\ ZsignCmdM(r)
    \/ Alone(r) /\ \E run \in RunOutcomes : ZsignRun(r, run)
    \/ Alone(r) /\ \E post \in SequentialPostOutcomes : PublishIpa(r, post)
    \/ Alone(r) /\ \E written \in BOOLEAN, post \in SequentialPostOutcomes : PublishManifest(r, written, post)

NextSequential ==
    \E r \in 1..MaxSequentialRequests :
        SequentialStep(r, SequentialUploadRequests, SequentialSignRequests)

\* The same service with its requests made one after another: each arrives
\* after the one before it was answered.
SpecSequential == Init /\ [][NextSequential]_vars

\* The value an Info.plist gives a key, where it has the key: the empty
\* string or a name.
PlistValues(k) ==
    {Str(<<>>),
     CASE k = "CFBundleDisplayName" -> S_FOO
       [] k = "CFBundleName" -> S_BAR
       [] OTHER -> S_BUNDLE}

\* The Info.plist dicts with each of the three keys absent, empty or named
PlistDicts ==
    UNION {{d \in [K -> {Str(<<>>), S_FOO, S_BAR, S_BUNDLE}] : \A k \in K : d[k] \in PlistValues(k)} :
              K \in SUBSET {"CFBundleDisplayName", "CFBundleName", "CFBundleIdentifier"}}

ExtractUploadRequests == {Request(UploadFiles(F_P12, F_MOBILEPROVISION), "password" :> PW1)}

ExtractSignRequests ==
    {Request("file" :> File(F_IPA, Bytes(TRUE, <<N_APP_DIR, N_APP_PLIST>>, TRUE, d)), NoFields) :
         d \in PlistDicts}

NextExtract ==
    \E r \in 1..MaxExtractRequests :
        SequentialStep(r, ExtractUploadRequests, ExtractSignRequests)

\* The service given archives whose Info.plist has every combination of the
\* three keys, after an identity upload.
SpecExtract == Init /\ [][NextExtract]_vars

(***************************************************************************)
(* Properties                                                              *)
(***************************************************************************)
Done(r) == req[r].pc = "done"

SignDone(r) == req[r].kind = "sign" /\ Done(r)

UploadDone(r) == req[r].kind = "upload" /\ Done(r)

Called(r, what) == what \in Range(req[r].calls)

\* An /uploadCert request has returned 200 success
UploadSucceeded(u) == UploadDone(u) /\ req[u].resp.code = 200

\* The paths of the temporary files request r has made so far
TempFiles(r) == {req[r].ipa_path, req[r].signed_ipa_path, req[r].manifest_path} \ {None}

\* C1: when a /signIPA request has returned, on whatever exit path, none of
\* the temporary files it created (input archive, signed archive, manifest)
\* is left in the upload folder.
C1_NoTempFileRemains ==
    \A r \in Requests : SignDone(r) => TempFiles(r) \cap files = {}

\* The three identity values of the command line the signer was invoked with
CmdIdentity(r) == <<req[r].cmd[3], req[r].cmd[5], req[r].cmd[7]>>

\* C2: the key-bundle path, passphrase and profile path of one signer
\* invocation all come from one single upload, and the request saw that same
\* identity when it tested it before building the command.
C2_SignerIdentityFromOneUpload ==
    \A r \in Requests : Called(r, "zsign") =>
        /\ \E u \in Requests :
               /\ req[u].kind = "upload"
               /\ CmdIdentity(r) = <<req[u].p12_path, req[u].password, req[u].mobileprovision_path>>
        /\ CmdIdentity(r) = req[r].lst

\* The submitted file is there and its name ends in '.ipa', in any case
HasIpaFile(request) ==
    /\ "file" \in DOMAIN request.files
    /\ request.files["file"].filename \in {F_IPA, F_IPA_UPPER}

\* C3 (as stated): a /signIPA request answered while no identity upload has
\* succeeded gets 412, and the signer is never invoked.
C3_AlwaysPreconditionFailed ==
    \A r \in Requests :
        (SignDone(r) /\ ~\E u \in Requests : UploadSucceeded(u)) =>
            (req[r].resp.code = 412 /\ ~Called(r, "zsign"))

\* C3 (amended): a /signIPA request that carries a file named *.ipa and is
\* answered while no identity upload has succeeded gets the 412 response;
\* and no /signIPA request invokes the signer before an upload has succeeded.
C3_PreconditionFailed ==
    \A r \in Requests :
        /\ (SignDone(r) /\ HasIpaFile(req[r].request) /\ ~\E u \in Requests : UploadSucceeded(u)) =>
               /\ req[r].resp.code = 412
               /\ req[r].resp.status = Str(<<"error">>)
               /\ req[r].resp.message = NOT_UPLOADED
        /\ (req[r].kind = "sign" /\ (Called(r, "zsign") \/ req[r].cmd # <<>>)) =>
               \E u \in Requests : UploadSucceeded(u)

C3_Witness ==
    \E r \in Requests :
        /\ SignDone(r) /\ HasIpaFile(req[r].request)
        /\ ~\E u \in Requests : UploadSucceeded(u)
        /\ req[r].resp.code = 412
        /\ \E u \in Requests : req[u].kind = "upload" /\ req[u].pc = "store_mobileprovision"

\* File names that do not end in '.ipa'
NotIpaNames == {F_ZIP, F_IPA_ZIP, F_NO_DOT}

\* C4: a /signIPA request whose file name lacks the ipa extension gets 400
\* with the invalid-file message and makes no call at all (no extraction, no
\* signer, no publish), whether or not an identity is stored.
C4_WrongExtensionRejected ==
    \A r \in Requests :
        (/\ req[r].kind = "sign"
         /\ "file" \in DOMAIN req[r].request.files
         /\ req[r].request.files["file"].filename \in NotIpaNames) =>
            /\ Done(r)
            /\ req[r].resp.code = 400
            /\ req[r].resp.status = Str(<<"error">>)
            /\ req[r].resp.message = Str(<<"Invalid IPA file">>)
            /\ req[r].calls = <<>>
            /\ TempFiles(r) = {}

C4_Witness ==
    \E r \in Requests :
        /\ SignDone(r)
        /\ req[r].request.files = ("file" :> File(F_IPA_ZIP, B_FULL))
        /\ req[r].resp.code = 400
        /\ All(<<stored_p12_path, stored_password, stored_mobileprovision_path>>)

\* C5: when the signer ends with a non-zero status, the request is answered
\* 500 with a message that holds the signer's stderr text, and no publish is
\* attempted.
C5_SignerFailureReported ==
    \A r \in Requests :
        (req[r].kind = "sign" /\ ~req[r].result.raises /\ req[r].result.returncode > 0) =>
            /\ Done(r)
            /\ req[r].resp.code = 500
            /\ req[r].resp.status = Str(<<"error">>)
            /\ Contains(req[r].resp.message, req[r].result.stderr)
            /\ ~Called(r, "upload_ipa") /\ ~Called(r, "upload_manifest")

C5_Witness ==
    \E r \in Requests :
        /\ SignDone(r)
        /\ req[r].result.returncode = 1 /\ req[r].result.stderr = BAD_KEY
        /\ req[r].resp.code = 500
        /\ req[r].resp.message = Str(<<"zsign error: ", "bad key">>)

\* requests.post answered 200 with the url (one of the two the endpoint
\* gives here) and white space around it
Published(post, url) ==
    /\ ~post.raises /\ post.status_code = 200
    /\ \E i \in 1..Len(Chars(post.text)) :
           /\ Chars(post.text)[i] = Chars(url)[1]
           /\ \A j \in 1..Len(Chars(post.text)) : j # i => Chars(post.text)[j] \in Whitespace

Urls == {URL1, URL2}

\* C6: after a successful upload, a /signIPA request with extractable
\* metadata, a signer that exits 0 and two publish calls that succeed is
\* answered 200 success with itms_url the literal prefix followed by the
\* published manifest url.
C6_EndToEnd ==
    \A r \in Requests : \A ipa, manifest \in Urls :
        (/\ SignDone(r)
         /\ ~req[r].result.raises /\ req[r].result.returncode = 0
         /\ Published(req[r].ipa_response, ipa)
         /\ Published(req[r].manifest_response, manifest)) =>
            /\ req[r].resp.code = 200
            /\ req[r].resp.status = Str(<<"success">>)
            /\ req[r].resp.itms_url =
                   Str(<<"itms-services://?action=download-manifest&url=">> \o Chars(manifest))

C6_Witness ==
    \E r, u \in Requests :
        /\ UploadSucceeded(u)
        /\ SignDone(r) /\ req[r].resp.code = 200
        /\ Published(req[r].ipa_response, URL1)
        /\ Published(req[r].manifest_response, URL2)
        /\ req[r].resp.itms_url =
               Str(<<"itms-services://?action=download-manifest&url=", "https://transfer.sh/abc/2">>)

\* Archives without metadata: not a zip archive, no application-bundle
\* directory under a Payload container, a bundle directory without Info.plist
NoMetadataArchives == {B_NOT_ZIP, B_NO_APP_DIR, B_NO_PLIST}

\* C7: a /signIPA request whose archive yields no metadata is answered 400,
\* not 500, and the signer is not invoked.
C7_NoMetadataRejected400 ==
    \A r \in Requests :
        (SignDone(r) /\ Called(r, "extract_app_info")
            /\ req[r].request.files["file"].content \in NoMetadataArchives) =>
            /\ req[r].resp.code = 400
            /\ req[r].resp.message = Str(<<"Could not extract app info from IPA">>)
            /\ ~Called(r, "zsign")

\* C8: extract_app_info returns the pair (None, None) for every archive
\* that is no zip archive, has no application-bundle directory, or has one
\* without an Info.plist under it.
C8_NoMetadataPair ==
    \A r \in Requests :
        (Called(r, "extract_app_info")
            /\ req[r].request.files["file"].content \in NoMetadataArchives) =>
            req[r].info = <<None, None>>

ARCHIVE_FAILED == Str(<<"Failed to upload signed IPA">>)

MANIFEST_FAILED == Str(<<"Failed to upload manifest">>)

\* A publish call that was made and failed: open or requests.post raised,
\* the status was not 200, or the body was empty or white space
PublishFailed(post) ==
    \/ post = NoPost
    \/ post.raises
    \/ post.status_code # 200
    \/ \A i \in 1..Len(Chars(post.text)) : Chars(post.text)[i] \in Whitespace

\* C9: a failed archive publish gives 500 with the archive-upload message
\* and no manifest publish; a failed manifest publish gives 500 with the
\* manifest-upload message; the two messages differ, and differ from the
\* message of a signer failure.
C9_PublishFailures ==
    /\ ARCHIVE_FAILED # MANIFEST_FAILED
    /\ \A r \in Requests :
        /\ (Called(r, "upload_ipa") /\ PublishFailed(req[r].ipa_response)) =>
               /\ Done(r)
               /\ req[r].resp.code = 500
               /\ req[r].resp.message = ARCHIVE_FAILED
               /\ ~Called(r, "upload_manifest")
        /\ (Called(r, "upload_manifest") /\ PublishFailed(req[r].manifest_response)) =>
               /\ Done(r)
               /\ req[r].resp.code = 500
               /\ req[r].resp.message = MANIFEST_FAILED
        /\ (Called(r, "zsign") /\ (req[r].result.raises \/ req[r].result.returncode # 0)) =>
               /\ Done(r)
               /\ req[r].resp.message \notin {ARCHIVE_FAILED, MANIFEST_FAILED}

C9_Witness ==
    \E r \in Requests :
        /\ SignDone(r)
        /\ Called(r, "upload_ipa")
        /\ req[r].ipa_response = Post(FALSE, 200, Str(<<>>))
        /\ req[r].resp.code = 500
        /\ req[r].resp.message = ARCHIVE_FAILED

\* What the client of /uploadCert did wrong: a file field missing, the
\* password missing or empty, a file name with the wrong extension
UploadDefect(request) ==
    \/ "p12" \notin DOMAIN request.files
    \/ "mobileprovision" \notin DOMAIN request.files
    \/ "password" \notin DOMAIN request.form
    \/ request.form["password"] = Str(<<>>)
    \/ request.files["p12"].filename # F_P12
    \/ request.files["mobileprovision"].filename # F_MOBILEPROVISION

\* C10: an /uploadCert request is answered 400 with status 'error' exactly
\* when a file field is missing, the password is empty or absent, or a file
\* name has the wrong extension; every other request whose files are saved
\* is answered 200 with status 'success'.
C10_UploadRejectedExactlyWhen ==
    \A r \in Requests :
        UploadDone(r) =>
            /\ UploadDefect(req[r].request) <=> req[r].resp.code = 400
            /\ req[r].resp.code = 400 => req[r].resp.status = Str(<<"error">>)
            /\ (~UploadDefect(req[r].request)
                    /\ UploadPath("profile_", uuid4(r, 2), ".mobileprovision") \in files) =>
                   (req[r].resp.code = 200 /\ req[r].resp.status = Str(<<"success">>))

C10_Witness ==
    \E r, u \in Requests :
        /\ UploadDone(r)
        /\ req[r].request = Request(UploadFiles(F_P12, F_P12), "password" :> PW1)
        /\ req[r].resp.code = 400
        /\ UploadSucceeded(u)

\* The last /uploadCert request before request r that returned 200 success
\* (the requests are numbered in the order they arrive), or 0
LastUploadBefore(r) ==
    LET ok == {u \in Requests : u < r /\ UploadSucceeded(u)}
    IN  IF ok = {} THEN 0 ELSE CHOOSE u \in ok : \A v \in ok : v <= u

\* C11: with the requests made one after another, the signer is invoked
\* with exactly the key-bundle path, passphrase and profile path of the most
\* recent successful upload, as `zsign -k <key> -p <passphrase> -m <profile>
\* -o <out> <in>`; and between requests the stored identity is that of the
\* most recent successful upload, whatever was uploaded before it.
C11_SignerGetsLatestIdentity ==
    /\ \A r \in Requests : Called(r, "zsign") =>
        LET u == LastUploadBefore(r)
        IN  /\ u # 0
            /\ req[r].cmd = <<Str(<<"zsign">>),
                              Str(<<"-k">>), req[u].p12_path,
                              Str(<<"-p">>), req[u].request.form["password"],
                              Str(<<"-m">>), req[u].mobileprovision_path,
                              Str(<<"-o">>), req[r].signed_ipa_path,
                              req[r].ipa_path>>
            /\ req[u].p12_path = UploadPath("cert_", uuid4(u, 1), ".p12")
            /\ req[u].mobileprovision_path = UploadPath("profile_", uuid4(u, 2), ".mobileprovision")
    /\ (\A q \in Requests : req[q].pc \in {"idle", "done"}) =>
        LET u == LastUploadBefore(MaxSequentialRequests + 1)
        IN  u # 0 =>
                /\ stored_p12_path = req[u].p12_path
                /\ stored_password = req[u].request.form["password"]
                /\ stored_mobileprovision_path = req[u].mobileprovision_path

C11_Witness ==
    /\ UploadSucceeded(1) /\ req[1].request.form["password"] = PW1
    /\ UploadSucceeded(2) /\ req[2].request.form["password"] = PW2
    /\ Called(3, "zsign")
    /\ CmdIdentity(3) = <<UploadPath("cert_", uuid4(2, 1), ".p12"), PW2,
                          UploadPath("profile_", uuid4(2, 2), ".mobileprovision")>>

\* C12: the manifest create_manifest_plist builds from (appName, bundleId,
\* archiveUrl) has one item, with one asset {kind: 'software-package', url:
\* archiveUrl} and the metadata {bundle-identifier: bundleId, bundle-version:
\* '1.0', kind: 'software', title: appName}, and nothing else.
C12_ManifestContent ==
    \A r \in Requests :
        req[r].manifest_content # None =>
            LET m == req[r].manifest_content[2]
            IN  /\ DOMAIN m = {"items"}
                /\ Len(m.items) = 1
                /\ DOMAIN m.items[1] = {"assets", "metadata"}
                /\ Len(m.items[1].assets) = 1
                /\ DOMAIN m.items[1].assets[1] = {"kind", "url"}
                /\ m.items[1].assets[1].kind = Str(<<"software-package">>)
                /\ m.items[1].assets[1].url = req[r].ipa_url
                /\ DOMAIN m.items[1].metadata = {"bundle-identifier", "bundle-version", "kind", "title"}
                /\ m.items[1].metadata["bundle-identifier"] = req[r].bundle_id
                /\ m.items[1].metadata["bundle-version"] = Str(<<"1.0">>)
                /\ m.items[1].metadata["kind"] = Str(<<"software">>)
                /\ m.items[1].metadata["title"] = req[r].app_name

C12_Witness ==
    \E r \in Requests :
        /\ req[r].manifest_content # None
        /\ req[r].app_name = S_FOO /\ req[r].bundle_id = S_BUNDLE /\ req[r].ipa_url = URL1
        /\ req[r].manifest_content[2].items[1].metadata["title"] = Str(<<"Foo">>)
        /\ req[r].manifest_content[2].items[1].assets[1].url = Str(<<"https://transfer.sh/abc/1">>)

\* s is t or the beginning of t
IsPrefix(s, t) == Len(s) <= Len(t) /\ SubSeq(t, 1, Len(s)) = s

\* C13: the steps of a /signIPA request come in the order extraction,
\* signer, archive publish, manifest publish, each only after the one before
\* it succeeded; and the request is answered 200 only after all four, with
\* the signer at exit status 0 and both publish calls giving a url.
C13_StepsInOrder ==
    \A r \in Requests :
        req[r].kind = "sign" =>
            /\ IsPrefix(req[r].calls, <<"extract_app_info", "zsign", "upload_ipa", "upload_manifest">>)
            /\ Called(r, "zsign") =>
                   /\ req[r].info # None
                   /\ Truthy(req[r].info[1]) /\ Truthy(req[r].info[2])
            /\ Called(r, "upload_ipa") =>
                   (~req[r].result.raises /\ req[r].result.returncode = 0)
            /\ Called(r, "upload_manifest") => ~PublishFailed(req[r].ipa_response)
            /\ req[r].resp.code = 200 =>
                   /\ Called(r, "upload_manifest")
                   /\ ~PublishFailed(req[r].manifest_response)
                   /\ req[r].resp.status = Str(<<"success">>)
            /\ req[r].resp.status = Str(<<"success">>) => req[r].resp.code = 200

C13_Witness ==
    \E r \in Requests :
        /\ SignDone(r) /\ req[r].resp.code = 200
        /\ req[r].calls = <<"extract_app_info", "zsign", "upload_ipa", "upload_manifest">>
        /\ req[r].result.returncode = 0

\* The program points at which a /signIPA request reads the stored identity
\* (lines 171, 61 and 67 to 69): the first read is made as the request
\* arrives, the others from these positions.
ReadsIdentity(r) ==
    /\ req[r].kind = "sign"
    /\ req[r].pc \in {"check_password", "check_mobileprovision",
                      "zsign_check_p12", "zsign_check_password", "zsign_check_mobileprovision",
                      "cmd_k", "cmd_p", "cmd_m"}

IdentityFields == <<stored_p12_path, stored_password, stored_mobileprovision_path>>

AllSet(fields) == \A i \in DOMAIN fields : fields[i] # None

AllUnset(fields) == \A i \in DOMAIN fields : fields[i] = None

\* C14: wherever a /signIPA request reads the stored identity, also while an
\* /uploadCert is in flight, the three fields are all set or all unset; and
\* the signer is never invoked with one of the three fields unset.
C14_IdentityNeverPartial ==
    \A r \in Requests :
        /\ ReadsIdentity(r) => (AllSet(IdentityFields) \/ AllUnset(IdentityFields))
        /\ Len(req[r].lst) = 3 => (AllSet(req[r].lst) \/ AllUnset(req[r].lst))
        /\ Called(r, "zsign") => AllSet(CmdIdentity(r))

\* The number of times request r made the call
Count(r, what) == Cardinality({i \in DOMAIN req[r].calls : req[r].calls[i] = what})

SignerFailed(r) == Called(r, "zsign") /\ ~ZsignResult(req[r].result)[1]

\* C15: a /signIPA request invokes the signer at most once and the publisher
\* at most once for the archive and once for the manifest; a failed signer or
\* publish call is not made again, it ends the request with an error.
C15_NoRetries ==
    \A r \in Requests :
        /\ Count(r, "zsign") <= 1
        /\ Count(r, "upload_ipa") <= 1
        /\ Count(r, "upload_manifest") <= 1
        /\ Count(r, "upload_ipa") + Count(r, "upload_manifest") <= 2
        /\ SignerFailed(r) =>
               (Done(r) /\ req[r].resp.code = 500 /\ ~Called(r, "upload_ipa"))
        /\ (Called(r, "upload_ipa") /\ PublishFailed(req[r].ipa_response)) =>
               (Done(r) /\ req[r].resp.code = 500 /\ ~Called(r, "upload_manifest"))
        /\ (Called(r, "upload_manifest") /\ PublishFailed(req[r].manifest_response)) =>
               (Done(r) /\ req[r].resp.code = 500)

C15_Witness ==
    \E q \in Requests :
        /\ SignDone(q) /\ Called(q, "upload_manifest") /\ PublishFailed(req[q].manifest_response)
        /\ Count(q, "zsign") = 1 /\ Count(q, "upload_ipa") = 1 /\ Count(q, "upload_manifest") = 1
        /\ req[q].resp.code = 500

\* The Info.plist of the archive request r sent was found and decoded
PlistFound(r) ==
    LET zip == req[r].request.files["file"].content
    IN  /\ Called(r, "extract_app_info")
        /\ zip.is_zip /\ zip.plist.ok
        /\ Truthy(FindAppDir(zip.namelist))
        /\ Concat(FindAppDir(zip.namelist), INFO_PLIST) \in Range(zip.namelist)

PlistOf(r) == req[r].request.files["file"].content.plist.data

\* C16 as claimed: the display name is CFBundleDisplayName if present, else
\* CFBundleName if present, else 'Unknown App'; the bundle identifier is
\* CFBundleIdentifier if present, else 'Unknown Bundle ID'; for every
\* combination of present, absent and empty values of the three keys.
C16_PresentKeyWins ==
    \A r \in Requests :
        PlistFound(r) =>
            LET d == PlistOf(r)
            IN  /\ req[r].info[1] =
                       IF "CFBundleDisplayName" \in DOMAIN d THEN d["CFBundleDisplayName"]
                       ELSE IF "CFBundleName" \in DOMAIN d THEN d["CFBundleName"]
                       ELSE Str(<<"Unknown App">>)
                /\ req[r].info[2] =
                       IF "CFBundleIdentifier" \in DOMAIN d THEN d["CFBundleIdentifier"]
                       ELSE Str(<<"Unknown Bundle ID">>)

\* C16, amended: the display name is CFBundleDisplayName if present and not
\* empty, else CFBundleName if present (empty or not), else 'Unknown App';
\* the bundle identifier is CFBundleIdentifier if present (empty or not),
\* else 'Unknown Bundle ID'.
C16_NonEmptyDisplayNameWins ==
    \A r \in Requests :
        PlistFound(r) =>
            LET d == PlistOf(r)
            IN  /\ req[r].info[1] =
                       IF "CFBundleDisplayName" \in DOMAIN d /\ d["CFBundleDisplayName"] # Str(<<>>)
                       THEN d["CFBundleDisplayName"]
                       ELSE IF "CFBundleName" \in DOMAIN d THEN d["CFBundleName"]
                       ELSE Str(<<"Unknown App">>)
                /\ req[r].info[2] =
                       IF "CFBundleIdentifier" \in DOMAIN d THEN d["CFBundleIdentifier"]
                       ELSE Str(<<"Unknown Bundle ID">>)

C16_Witness ==
    \E r \in Requests :
        /\ PlistFound(r)
        /\ PlistOf(r) = ("CFBundleDisplayName" :> Str(<<>>)) @@ ("CFBundleName" :> S_BAR)
        /\ req[r].info = <<S_BAR, Str(<<"Unknown Bundle ID">>)>>

\* The files saved by the uploads that saved both of theirs
IdentityFiles ==
    UNION {{req[u].p12_path, req[u].mobileprovision_path} :
              u \in {v \in Requests : req[v].kind = "upload"}} \ {None}

\* C17: no operation deletes a file saved by a successful identity upload,
\* so whenever the identity is set the two files its paths name exist; and
\* an identity field once set is never unset again.
C17_IdentityFilesPersist ==
    /\ [](/\ stored_p12_path # None => stored_p12_path \in files
          /\ stored_mobileprovision_path # None => stored_mobileprovision_path \in files
          /\ IdentityFiles \subseteq files)
    /\ [][/\ \A f \in IdentityFiles : f \in files'
          /\ \A i \in 1..3 : IdentityFields[i] # None => IdentityFields'[i] # None]_vars

C17_Witness ==
    \E u, r \in Requests :
        /\ UploadSucceeded(u)
        /\ SignDone(r) /\ req[r].resp.code = 200
        /\ req[r].ipa_path # None /\ req[r].ipa_path \notin files
        /\ stored_p12_path = req[u].p12_path /\ stored_p12_path \in files
        /\ stored_mobileprovision_path = req[u].mobileprovision_path
        /\ stored_mobileprovision_path \in files

\* C18: an /uploadCert request that is answered other than 200 is answered
\* in the step it arrives in, and leaves the three stored identity fields as
\* they were; no step of a /signIPA or /health request changes them.
C18_FailedUploadChangesNothing ==
    [][\A r \in Requests :
          req'[r] # req[r] =>
              /\ req'[r].kind \in {"sign", "health"} => IdentityFields' = IdentityFields
              /\ (req'[r].kind = "upload" /\ req'[r].pc = "done" /\ req'[r].resp.code # 200) =>
                     (req[r].kind = "idle" /\ IdentityFields' = IdentityFields)]_vars

C18_Witness ==
    \E u, v \in Requests :
        /\ UploadSucceeded(u)
        /\ UploadDone(v) /\ req[v].resp.code = 500 /\ u < v
        /\ IdentityFields = <<req[u].p12_path, req[u].password, req[u].mobileprovision_path>>

\* The path of the input file request r would save
InputPath(r) == UploadPath("input_", uuid4(r, 1), ".ipa")

\* C19: the missing-file check and the extension check of /signIPA come
\* before the identity check: a request with no file, or with a file of
\* another extension, gets 400 whatever the stored identity is; 412 is given
\* only to a request with an 'ipa' file that read an identity not fully set;
\* and in these three cases no temporary file is created.
C19_ValidationPrecedence ==
    \A r \in Requests :
        req[r].kind = "sign" =>
            /\ "file" \notin DOMAIN req[r].request.files =>
                   /\ Done(r) /\ req[r].resp.code = 400
                   /\ req[r].resp.message = Str(<<"No IPA file provided">>)
                   /\ req[r].lst = <<>>
                   /\ TempFiles(r) = {} /\ InputPath(r) \notin files
            /\ ("file" \in DOMAIN req[r].request.files /\ ~HasIpaFile(req[r].request)) =>
                   /\ Done(r) /\ req[r].resp.code = 400
                   /\ req[r].resp.message = Str(<<"Invalid IPA file">>)
                   /\ req[r].lst = <<>>
                   /\ TempFiles(r) = {} /\ InputPath(r) \notin files
            /\ req[r].resp.code = 412 =>
                   /\ HasIpaFile(req[r].request)
                   /\ Len(req[r].lst) = 3 /\ ~AllSet(req[r].lst)
                   /\ req[r].resp.message = NOT_UPLOADED
                   /\ TempFiles(r) = {} /\ InputPath(r) \notin files

C19_Witness ==
    \E r, q \in Requests :
        /\ AllUnset(IdentityFields)
        /\ SignDone(r) /\ "file" \notin DOMAIN req[r].request.files /\ req[r].resp.code = 400
        /\ SignDone(q) /\ HasIpaFile(req[q].request) /\ req[q].resp.code = 412
        /\ files = {}

\* The response was made by an except clause of a handler
FromExcept(resp) ==
    /\ resp.message # None
    /\ Chars(resp.message) # <<>>
    /\ Head(Chars(resp.message)) \in {"Signing error: ", "Upload error: "}

\* C20: given that the signer and the publish endpoint answer and the
\* request's thread is scheduled, every /signIPA and /uploadCert request that
\* arrived is eventually answered, once: with 200, 400, 412 or 500 for
\* /signIPA and with 200, 400 or 500 for /uploadCert; and an exception in a
\* handler gives a 500 response.
C20_Terminates ==
    /\ \A r \in 1..MaxRequests : (req[r].kind # "idle") ~> Done(r)
    /\ [](\A r \in Requests :
             /\ SignDone(r) => req[r].resp.code \in {200, 400, 412, 500}
             /\ UploadDone(r) => req[r].resp.code \in {200, 400, 500}
             /\ Done(r) => req[r].resp # NoResponse
             /\ ~Done(r) => req[r].resp = NoResponse
             /\ (Done(r) /\ FromExcept(req[r].resp)) => req[r].resp.code = 500)
    /\ [][\A r \in Requests : Done(r) => req'[r] = req[r]]_vars

C20_Witness ==
    \E r, u \in Requests :
        /\ SignDone(r) /\ req[r].resp = Response(500, "error",
               Str(<<"Signing error: ", "[Errno 28] No space left on device">>), None)
        /\ UploadDone(u) /\ req[u].resp.code = 200

====
